---- MODULE Spec2Model ----
(***************************************************************************)
(* Model of the mooover backend: users, groups, the MEMBER_OF relation and *)
(* the step counters, as kept in the Neo4j store and changed by the        *)
(* services of src/app (the single-process application) and of            *)
(* src/services (the user-, group- and steps-services).                    *)
(***************************************************************************)
EXTENDS Integers, FiniteSets, Sequences, TLC

\* ------------------------------------------------------------------ bounds
MaxSteps == 1
UserIds == {"alice", "bob"}
GroupIds == {"team-a", "team-b"}
Deployments == {"app", "services"}
Deltas == 1..MaxSteps
\* the (today_steps, this_week_steps) pairs a full-record update is tried with
UpdateValues == {<<t, t>> : t \in 0..MaxSteps}
GroupCap == 2 * MaxSteps

Procs == {"p1", "p2"}

\* the days of the clock: 0..MaxDay, three weeks from a Monday
MaxDay == 21

\* the Repository objects: r1 = Repository(), r2 = Repository({..})
RepoIds == {"r1", "r2"}

\* the values of the profile fields (name, given_name, ..) of a request body
Names == {"ann", "ben"}

\* thread1 and thread2 of run_background_tasks, named by their targets
Threads == {"_reset_today_steps", "_reset_this_week_steps"}

VARIABLES deployment, users, groups, member_of, last, calls, logged, threads,
          entities, request, clock, scans, creates, duplicates, removals

vars == <<deployment, users, groups, member_of, last, calls, logged, threads,
          entities, request, clock, scans,
                   creates, duplicates, removals>>

\* ------------------------------------------------------- records and store
\* User(sub=..., ...) with the defaults of add_user: 0 steps
DefaultUser == [today_steps |-> 0, this_week_steps |-> 0]

\* Group(nickname=..., name=...) with the defaults of add_group: 0 steps
DefaultGroup == [today_steps |-> 0, this_week_steps |-> 0]

\* CREATE (n {..}) / MATCH (n {key}) SET n = {..}: the node key holds rec
Put(f, k, rec) == [x \in (DOMAIN f) \cup {k} |-> IF x = k THEN rec ELSE f[x]]

\* MATCH (n {key}) DETACH DELETE n
Del(f, k) == [x \in (DOMAIN f) \ {k} |-> f[x]]

\* the outcome of a service call: the error raised ("None" when it returned)
\* and the store it leaves
Out(err, U, G, M) == [err |-> err, users |-> U, groups |-> G, member_of |-> M]
Same(err) == Out(err, users, groups, member_of)

\* Neo4jUserRepository.get_groups_of_user: MATCH (u)-[:MEMBER_OF]->(g)
get_groups_of_user(u) == {g \in GroupIds : <<u, g>> \in member_of}

\* Neo4jGroupRepository.get_members_of_group: MATCH (u)-[:MEMBER_OF]->(g)
get_members_of_group(g) == {u \in UserIds : <<u, g>> \in member_of}

\* ------------------------------------------------------- authorization
\* the kid of the keys of {ISSUER}.well-known/jwks.json
PublishedKids == {"k1"}

\* the Authorization header of a request: its scheme and its credentials, a
\* string that is a JWT or not, with the kid of its header ("" when the
\* header has none), whether its signature verifies under the published key
\* of that kid, whether exp has passed, whether audience and issuer are
\* those of the configuration
Tokens ==
    [scheme : {"Bearer", "Basic"}, form : {"jwt", "garbage"},
     kid : {"k1", "k9", ""}, signed : BOOLEAN, expired : BOOLEAN,
     claims : BOOLEAN]

\* a request without Authorization header
NoToken ==
    [scheme |-> "", form |-> "", kid |-> "", signed |-> FALSE,
     expired |-> FALSE, claims |-> FALSE]

\* the token is a JWT signed with a published key of the issuer, not expired,
\* with the audience and the issuer of the configuration
TokenIsValid(token) ==
    /\ token.scheme = "Bearer"
    /\ token.form = "jwt"
    /\ token.kid \in PublishedKids
    /\ token.signed
    /\ ~token.expired
    /\ token.claims

\* jwt.decode(token, rsa_key, algorithms, audience, issuer): the signature
\* first, then exp, then aud and iss
decode(token) ==
    IF ~token.signed THEN "Token is invalid"
    ELSE IF token.expired THEN "Token is expired"
    ELSE IF ~token.claims THEN "Invalid claims, check audience and issuer"
    ELSE "None"

\* JwtValidator.validate: the detail of the HTTPException(401) it raises,
\* "None" when it returns; jwks is "error" when urlopen raises
validate(token, jwks) ==
    IF jwks = "error" THEN "Unable to parse authentication token"
    ELSE IF token.form # "jwt" THEN "Token is invalid"
    ELSE IF token.kid = "" THEN "Unable to parse authentication token"
    ELSE IF token.kid \notin PublishedKids THEN "None"
    ELSE decode(token)

\* require_auth.validate_bearer_token
validate_bearer_token(token, jwks) ==
    IF token = NoToken THEN "User not authenticated"
    ELSE IF token.scheme # "Bearer"
         THEN "Authorization header must be of type bearer"
    ELSE validate(token, jwks)

\* -------------------------------------------------- in-memory Repository
\* the JSON bodies of POST /users: an id and the profile fields
Bodies == [id : UserIds, name : Names]

\* User.from_dict of src/user_services: data.get(..) of every field; steps
\* is not in the body and reads None
from_dict(data) == [id |-> data.id, name |-> data.name, steps |-> "None"]

\* User.to_dict of src/user_services
to_dict(user) == [id |-> user.id, name |-> user.name, steps |-> user.steps]

\* entities["Repository"] is the class attribute Repository.entities = {};
\* entities[r] is the attribute of the object r, set by __init__ only when it
\* was given a non-empty dict (if entities: self.entities = entities)
NoEntities == [k \in {} |-> from_dict([id |-> "", name |-> ""])]

Repository(given) ==
    IF given # NoEntities THEN [own |-> TRUE, dict |-> given]
    ELSE [own |-> FALSE, dict |-> NoEntities]

\* r1 = Repository(), the default of UserServices; r2 = Repository({user1.id:
\* user1}), the fixture of the tests
InitEntities ==
    [x \in {"Repository"} \cup RepoIds |->
        CASE x = "Repository" -> [own |-> TRUE, dict |-> NoEntities]
          [] x = "r1" -> Repository(NoEntities)
          [] OTHER -> Repository([k \in {"alice"} |->
                          from_dict([id |-> "alice", name |-> "ann"])])]

\* the object that holds the dict self.entities names
holder(r) == IF entities[r].own THEN r ELSE "Repository"

\* self.entities
entities_of(r) == entities[holder(r)].dict

RepoOut(err, E) == [err |-> err, entities |-> E]

\* Repository.get_one: the error it raises
get_one_err(r, id) ==
    IF id \notin DOMAIN entities_of(r) THEN "NotFound" ELSE "None"

\* Repository.get_one: the entity it returns
get_one(r, id) == entities_of(r)[id]

\* Repository.get_all
get_all(r) == {entities_of(r)[k] : k \in DOMAIN entities_of(r)}

\* Repository.add that stores the key and loses the fields of the entity
add_stores_id_only(r, entity) ==
    IF entity.id \in DOMAIN entities_of(r) THEN RepoOut("Duplicate", entities)
    ELSE RepoOut("None",
                 [entities EXCEPT ![holder(r)].dict =
                     Put(@, entity.id, from_dict([id |-> entity.id,
                                                  name |-> ""]))])

\* Repository.add
add(r, entity) ==
    IF entity.id \in DOMAIN entities_of(r) THEN RepoOut("Duplicate", entities)
    ELSE RepoOut("None",
                 [entities EXCEPT ![holder(r)].dict = Put(@, entity.id, entity)])

\* Repository.update that stores the entity whether its id is a key or not
update_inserts_missing(r, entity) ==
    RepoOut("None",
            [entities EXCEPT ![holder(r)].dict = Put(@, entity.id, entity)])

\* Repository.update
update(r, entity) ==
    IF entity.id \notin DOMAIN entities_of(r) THEN RepoOut("NotFound", entities)
    ELSE RepoOut("None",
                 [entities EXCEPT ![holder(r)].dict = Put(@, entity.id, entity)])

\* Repository.delete
delete(r, id) ==
    IF id \notin DOMAIN entities_of(r) THEN RepoOut("NotFound", entities)
    ELSE RepoOut("None", [entities EXCEPT ![holder(r)].dict = Del(@, id)])

\* ------------------------------------------------ user services (both)
\* add_user without the get_one that precedes CREATE
add_user_without_check(u) ==
    Out("None", Put(users, u, DefaultUser), groups, member_of)

\* POST /users: the status code of the response
add_user_status(err) ==
    CASE err = "None" -> 201
      [] err = "Duplicate" -> 409
      [] err \in {"KeyError", "ValueError"} -> 400
      [] OTHER -> 500

\* UserServices.add_user -> Neo4jUserRepository.add
add_user(u) ==
    IF u \in DOMAIN users THEN Same("Duplicate")
    ELSE Out("None", Put(users, u, DefaultUser), groups, member_of)

\* UserServices.update_user -> Neo4jUserRepository.update: SET u = {..}
update_user(u, today, week) ==
    IF u \notin DOMAIN users THEN Same("NotFound")
    ELSE Out("None",
             Put(users, u, [today_steps |-> today, this_week_steps |-> week]),
             groups, member_of)

\* PUT /users/{user_id}: the handler passes json_data["sub"], the id of the
\* body, to update_user and never reads user_id, the id of the path
put_user(user_id, sub, today, week) == update_user(sub, today, week)

\* UserServices.get_group_of_user: the error it raises
get_group_of_user_err(u) ==
    IF u \notin DOMAIN users THEN "NotFound"
    ELSE IF get_groups_of_user(u) = {} THEN "NoContent"
    ELSE "None"

\* UserServices.get_group_of_user: groups[0] of the MATCH result, whose order
\* the store defines: any of the user's groups
get_group_of_user_returns(u) ==
    IF get_group_of_user_err(u) = "None" THEN get_groups_of_user(u) ELSE {}

\* GET /users/{user_id}/group: the status code of the response
get_group_of_user_status(u) ==
    CASE get_group_of_user_err(u) = "NotFound" -> 404
      [] get_group_of_user_err(u) = "NoContent" -> 204
      [] OTHER -> 200

\* GroupServices.get_group -> Neo4jGroupRepository.get_one
get_group_err(g) == IF g \in DOMAIN groups THEN "None" ELSE "NotFound"

\* ------------------------------------------- group services of src/services
\* GroupServices._get_group_of_user: "None" on 204, a Group built from the
\* response body on any status but 200 (Group.from_dict reads the body with
\* data.get and raises nothing), HTTPException raised on 200
_get_group_of_user(u) ==
    CASE get_group_of_user_status(u) = 204 -> "None"
      [] get_group_of_user_status(u) # 200 -> "Group"
      [] OTHER -> "HTTPException"

\* group.today_steps += t; group.this_week_steps += w
AddSteps(rec, t, w) ==
    [today_steps |-> rec.today_steps + t,
     this_week_steps |-> rec.this_week_steps + w]

\* GroupServices.add_group of src/app, called by POST /groups with
\* user_services.get_user(user_id)
app_add_group(u, g) ==
    IF u \notin DOMAIN users THEN Same("NotFound")
    ELSE IF get_groups_of_user(u) # {} THEN Same("Duplicate")
    ELSE IF g \in DOMAIN groups THEN Same("Duplicate")
    ELSE Out("None", users, Put(groups, g, DefaultGroup),
             member_of \cup {<<u, g>>})

\* GroupServices.add_group of src/services/group-services
services_add_group(u, g) ==
    CASE _get_group_of_user(u) = "HTTPException" -> Same("HTTPException")
      [] _get_group_of_user(u) = "None" -> Same("Duplicate")
      [] OTHER ->
            IF g \in DOMAIN groups THEN Same("Duplicate")
            ELSE IF u \notin DOMAIN users
                 THEN Out("NotFound", users, Put(groups, g, DefaultGroup),
                          member_of)
                 ELSE Out("None", users, Put(groups, g, DefaultGroup),
                          member_of \cup {<<u, g>>})

add_group(u, g) ==
    IF deployment = "app" THEN app_add_group(u, g)
    ELSE services_add_group(u, g)

\* GroupServices.update_group -> Neo4jGroupRepository.update: SET g = {..}
update_group(g, today, week) ==
    IF g \notin DOMAIN groups THEN Same("NotFound")
    ELSE Out("None", users,
             Put(groups, g, [today_steps |-> today, this_week_steps |-> week]),
             member_of)

\* PUT /groups/{group_id}: the handler passes json_data["nickname"] to
\* update_group and never reads group_id
put_group(group_id, nickname, today, week) == update_group(nickname, today, week)

\* GroupServices.delete_group -> Neo4jGroupRepository.delete: DETACH DELETE g
delete_group(g) ==
    IF g \notin DOMAIN groups THEN Same("NotFound")
    ELSE Out("None", users, Del(groups, g),
             {m \in member_of : m[2] # g})

\* Neo4jGroupRepository.add_member_to_group followed by "# update steps"
JoinAndAddSteps(u, g) ==
    IF g \notin DOMAIN groups THEN Same("NotFound")
    ELSE IF u \notin DOMAIN users THEN Same("NotFound")
    ELSE Out("None", users,
             Put(groups, g, AddSteps(groups[g], users[u].today_steps,
                                     users[u].this_week_steps)),
             member_of \cup {<<u, g>>})

\* GroupServices.add_member_to_group of src/app
app_add_member_to_group(u, g) ==
    IF u \notin DOMAIN users THEN Same("NotFound")
    ELSE IF g \in get_groups_of_user(u) THEN Same("Duplicate")
    ELSE JoinAndAddSteps(u, g)

\* GroupServices.add_member_to_group of src/services/group-services
services_add_member_to_group(u, g) ==
    CASE _get_group_of_user(u) = "HTTPException" -> Same("HTTPException")
      [] _get_group_of_user(u) = "Group" -> Same("Duplicate")
      [] OTHER -> JoinAndAddSteps(u, g)

\* PUT /groups/{group_id}/members: the status code of the response
add_member_to_group_status(err) ==
    CASE err = "None" -> 200
      [] err = "NotFound" -> 404
      [] err = "Duplicate" -> 409
      [] err \in {"KeyError", "ValueError"} -> 400
      [] OTHER -> 500

add_member_to_group(u, g) ==
    IF deployment = "app" THEN app_add_member_to_group(u, g)
    ELSE services_add_member_to_group(u, g)

\* remove_member_from_group without the delete of a group left empty
remove_member_keeps_empty_group(u, g) ==
    IF g \notin DOMAIN groups THEN Same("NotFound")
    ELSE IF u \notin DOMAIN users THEN Same("NotFound")
    ELSE Out("None", users,
             Put(groups, g, AddSteps(groups[g], 0 - users[u].today_steps,
                                     0 - users[u].this_week_steps)),
             member_of \ {<<u, g>>})

\* GroupServices.remove_member_from_group (the same in both deployments)
remove_member_from_group(u, g) ==
    IF g \notin DOMAIN groups THEN Same("NotFound")
    ELSE IF u \notin DOMAIN users THEN Same("NotFound")
    ELSE IF get_members_of_group(g) \ {u} = {}
         THEN Out("None", users, Del(groups, g),
                  {m \in member_of : m[2] # g})
         ELSE Out("None", users,
                  Put(groups, g, AddSteps(groups[g], 0 - users[u].today_steps,
                                          0 - users[u].this_week_steps)),
                  member_of \ {<<u, g>>})

\* ------------------------------------------------------- steps services
\* StepsServices.add_new_steps of src/app: user += steps, then every group of
\* the user += steps
app_add_new_steps(u, d) ==
    IF u \notin DOMAIN users THEN Same("NotFound")
    ELSE Out("None", Put(users, u, AddSteps(users[u], d, d)),
             [g \in DOMAIN groups |->
                 IF g \in get_groups_of_user(u)
                 THEN AddSteps(groups[g], d, d) ELSE groups[g]],
             member_of)

\* Neo4jStepsRepository.add_new_steps of src/services/steps-services:
\* SET g.this_week_steps = u.this_week_steps + steps, u already increased
services_add_new_steps(u, d) ==
    IF u \notin DOMAIN users THEN Same("NotFound")
    ELSE Out("None", Put(users, u, AddSteps(users[u], d, d)),
             [g \in DOMAIN groups |->
                 IF g \in get_groups_of_user(u)
                 THEN [today_steps |-> groups[g].today_steps + d,
                       this_week_steps |->
                           (users[u].this_week_steps + d) + d]
                 ELSE groups[g]],
             member_of)

add_new_steps(u, d) ==
    IF deployment = "app" THEN app_add_new_steps(u, d)
    ELSE services_add_new_steps(u, d)

\* add_new_steps when the store fails the write of the group: in src/app
\* user_repo.update has committed in a transaction of its own and nothing
\* undoes it; in steps-services the one write transaction is rolled back
add_new_steps_store_failure(u, d) ==
    IF u \notin DOMAIN users THEN Same("NotFound")
    ELSE IF deployment = "app"
         THEN Out("Internal", Put(users, u, AddSteps(users[u], d, d)),
                  groups, member_of)
         ELSE Same("Internal")

\* ----------------------------------------------------- background tasks
\* datetime.weekday() of the day with number day, day 0 being a Monday
weekday(day) == day % 7

\* the weekly wake-up computed with 6 - weekday
weekly_wakeup_six_minus(today) == today + (6 - weekday(today))

\* pause.until(datetime.now().replace(hour=0, ..) + timedelta(days=(7 -
\* datetime.now().weekday()))): the day at whose midnight the weekly timer
\* wakes, computed on day today
weekly_wakeup(today) == today + (7 - weekday(today))

\* the clock of a service started on day start: the current day, the day of
\* the wake-up the weekly timer sleeps until, the day it fired last (-1
\* before the first firing)
ClockAt(start) ==
    [start |-> start, today |-> start, weekly |-> weekly_wakeup(start),
     fired |-> 0 - 1]

\* a request handler that is not inside a repository add
NoCreate == [pc |-> "idle", id |-> "", err |-> ""]

\* a request handler that is not inside remove_member_from_group
NoRemoval == [pc |-> "idle", u |-> "", g |-> "", err |-> "", at |-> "",
              user |-> DefaultUser, group |-> DefaultGroup]

\* a timer thread that sleeps: it holds no record read from the store
NoScan ==
    [pc |-> "pause", users |-> [u \in {} |-> DefaultUser],
     groups |-> [g \in {} |-> DefaultGroup]]

\* _reset_today_steps of src/app after pause.until: every user and every
\* group is read, its today_steps set to 0 and the record written back
app_reset_today_steps ==
    Out("None",
        [u \in DOMAIN users |-> [users[u] EXCEPT !.today_steps = 0]],
        [g \in DOMAIN groups |-> [groups[g] EXCEPT !.today_steps = 0]],
        member_of)

\* _reset_this_week_steps of src/app after pause.until
app_reset_this_week_steps ==
    Out("None",
        [u \in DOMAIN users |-> [users[u] EXCEPT !.this_week_steps = 0]],
        [g \in DOMAIN groups |-> [groups[g] EXCEPT !.this_week_steps = 0]],
        member_of)

\* Neo4jStepsRepository.reset_all_daily_steps: "MATCH (u:User) SET
\* today_steps = 0" names no node, today_steps is a variable that is not
\* defined; the store rejects the statement and the transaction writes nothing
reset_all_daily_steps == Same("ClientError")

\* Neo4jStepsRepository.reset_all_weekly_steps: "MATCH (u:User) SET
\* this_week_steps = 0", rejected the same way
reset_all_weekly_steps == Same("ClientError")

_reset_today_steps ==
    IF deployment = "app" THEN app_reset_today_steps
    ELSE reset_all_daily_steps

_reset_this_week_steps ==
    IF deployment = "app" THEN app_reset_this_week_steps
    ELSE reset_all_weekly_steps

\* thread_after if both loops ran in one thread: an exception ends them all
thread_after_stops_all(t, err) ==
    IF err = "None" THEN threads ELSE [x \in Threads |-> "dead"]

\* the threads after the body of thread t ended with err: the while True
\* loop has no try, an exception leaves the target and ends its thread
thread_after(t, err) ==
    IF err = "None" THEN threads ELSE [threads EXCEPT ![t] = "dead"]

\* _reset_today_steps of src/app when the store fails one of its update
\* transactions: the users of U (all of them once a group is reached) and the
\* groups of G were written before
app_reset_today_steps_store_failure(U, G) ==
    Out("Internal",
        [u \in DOMAIN users |->
            IF u \in U THEN app_reset_today_steps.users[u] ELSE users[u]],
        [g \in DOMAIN groups |->
            IF g \in G THEN app_reset_today_steps.groups[g] ELSE groups[g]],
        member_of)

\* _reset_this_week_steps of src/app when the store fails one of its update
\* transactions
app_reset_this_week_steps_store_failure(U, G) ==
    Out("Internal",
        [u \in DOMAIN users |->
            IF u \in U THEN app_reset_this_week_steps.users[u] ELSE users[u]],
        [g \in DOMAIN groups |->
            IF g \in G THEN app_reset_this_week_steps.groups[g]
            ELSE groups[g]],
        member_of)

\* the records written before the update that failed: some of the users and
\* no group, or all users and some but not all of the groups
WrittenBeforeFailure ==
    {w \in (SUBSET DOMAIN users) \X (SUBSET DOMAIN groups) :
        \/ w[1] # DOMAIN users /\ w[2] = {}
        \/ w[1] = DOMAIN users /\ w[2] # DOMAIN groups}

\* --------------------------------------------------------------- actions
\* the counters stay within the bounds of the model
InBounds(r) ==
    /\ \A u \in DOMAIN r.users :
          /\ r.users[u].today_steps \in 0..MaxSteps
          /\ r.users[u].this_week_steps \in 0..MaxSteps
    /\ \A g \in DOMAIN r.groups :
          /\ r.groups[g].today_steps \in (0 - GroupCap)..GroupCap
          /\ r.groups[g].this_week_steps \in (0 - GroupCap)..GroupCap

Apply(op, u, g, r) ==
    /\ InBounds(r)
    /\ users' = r.users
    /\ groups' = r.groups
    /\ member_of' = r.member_of
    /\ last' = [op |-> op, u |-> u, g |-> g, err |-> r.err]
    /\ UNCHANGED <<deployment, calls, logged, threads, entities, request,
                   clock, scans,
                   creates, duplicates, removals>>

AddUser == \E u \in UserIds : Apply("add_user", u, "", add_user(u))

UpdateUser ==
    \E u \in UserIds, v \in UpdateValues :
        Apply("update_user", u, "", update_user(u, v[1], v[2]))

AddGroup ==
    \E u \in UserIds, g \in GroupIds : Apply("add_group", u, g, add_group(u, g))

UpdateGroup ==
    \E g \in GroupIds, v \in UpdateValues :
        Apply("update_group", "", g, update_group(g, v[1], v[2]))

\* PUT /users/{user_id} with a body whose sub is any user id
PutUser ==
    \E user_id \in UserIds, sub \in UserIds, v \in UpdateValues :
        Apply("put_user", user_id, "", put_user(user_id, sub, v[1], v[2]))

\* PUT /groups/{group_id} with a body whose nickname is any group id
PutGroup ==
    \E group_id \in GroupIds, nickname \in GroupIds, v \in UpdateValues :
        Apply("put_group", "", group_id,
              put_group(group_id, nickname, v[1], v[2]))

DeleteGroup == \E g \in GroupIds : Apply("delete_group", "", g, delete_group(g))

AddMember ==
    \E u \in UserIds, g \in GroupIds :
        Apply("add_member", u, g, add_member_to_group(u, g))

RemoveMember ==
    \E u \in UserIds, g \in GroupIds :
        Apply("remove_member", u, g, remove_member_from_group(u, g))

LogSteps ==
    \E u \in UserIds, d \in Deltas :
        Apply("log_steps", u, "", add_new_steps(u, d))

LogStepsStoreFailure ==
    \E u \in UserIds, d \in Deltas :
        Apply("log_steps", u, "", add_new_steps_store_failure(u, d))

\* one round of the loop of the timer thread t, as far as the store and the
\* thread go: the body after pause.until
Round(t, r) ==
    /\ threads[t] = "alive"
    /\ users' = r.users
    /\ groups' = r.groups
    /\ member_of' = r.member_of
    /\ last' = [op |-> t, u |-> "", g |-> "", err |-> r.err]
    /\ threads' = thread_after(t, r.err)
    /\ UNCHANGED <<deployment, calls, logged, entities, request, scans,
                   creates, duplicates, removals>>

\* one firing of the timer thread t, whatever the day
Fire(t, r) == Round(t, r) /\ UNCHANGED clock

ResetTodaySteps == Fire("_reset_today_steps", _reset_today_steps)

ResetThisWeekSteps == Fire("_reset_this_week_steps", _reset_this_week_steps)

\* a day passes; the weekly timer, when its thread is alive, wakes at the
\* midnight it sleeps until, so that day does not pass without its firing
Tick ==
    /\ clock.today < MaxDay
    /\ threads["_reset_this_week_steps"] = "alive" => clock.today < clock.weekly
    /\ clock' = [clock EXCEPT !.today = @ + 1]
    /\ UNCHANGED <<deployment, users, groups, member_of, last, calls, logged,
                   threads, entities, request, scans,
                   creates, duplicates, removals>>

\* one round of _reset_this_week_steps at the midnight it slept until: the
\* reset, then, back at the top of the loop, the next wake-up
WeeklyRound ==
    /\ clock.today = clock.weekly
    /\ Round("_reset_this_week_steps", _reset_this_week_steps)
    /\ clock' = [clock EXCEPT
                   !.fired = clock.today,
                   !.weekly = IF _reset_this_week_steps.err = "None"
                              THEN weekly_wakeup(clock.today) ELSE @]

ResetTodayStepsStoreFailure ==
    /\ deployment = "app"
    /\ \E w \in WrittenBeforeFailure :
          Fire("_reset_today_steps",
               app_reset_today_steps_store_failure(w[1], w[2]))

ResetThisWeekStepsStoreFailure ==
    /\ deployment = "app"
    /\ \E w \in WrittenBeforeFailure :
          Fire("_reset_this_week_steps",
               app_reset_this_week_steps_store_failure(w[1], w[2]))

\* a call of a Repository method on the object r
RepoApply(op, id, r, out) ==
    /\ entities' = out.entities
    /\ last' = [op |-> op, u |-> id, g |-> r, err |-> out.err]
    /\ UNCHANGED <<deployment, users, groups, member_of, calls, logged,
                   threads, request,
                   clock, scans,
                   creates, duplicates, removals>>

\* POST /users of src/user_services: services.add_user(User.from_dict(..))
RepoAdd ==
    \E r \in RepoIds, data \in Bodies :
        RepoApply("Repository.add", data.id, r, add(r, from_dict(data)))

\* PUT /users/{id} of src/user_services
RepoUpdate ==
    \E r \in RepoIds, data \in Bodies :
        RepoApply("Repository.update", data.id, r, update(r, from_dict(data)))

RepoDelete ==
    \E r \in RepoIds, id \in UserIds :
        RepoApply("Repository.delete", id, r, delete(r, id))

\* the response of a protected route: 401 from require_auth, the handler
\* not called, or the handler's own outcome out with the status code status
Respond(op, u, token, jwks, out, status) ==
    /\ IF validate_bearer_token(token, jwks) # "None"
       THEN /\ request' = [token |-> token, status |-> 401]
            /\ last' = [op |-> "require_auth", u |-> u, g |-> "",
                        err |-> validate_bearer_token(token, jwks)]
            /\ UNCHANGED <<users, groups, member_of>>
       ELSE /\ InBounds(out)
            /\ request' = [token |-> token, status |-> status]
            /\ last' = [op |-> op, u |-> u, g |-> "", err |-> out.err]
            /\ users' = out.users
            /\ groups' = out.groups
            /\ member_of' = out.member_of
    /\ UNCHANGED <<deployment, calls, logged, threads, entities, clock, scans,
                   creates, duplicates, removals>>

\* POST /users/{user_id}/steps: the status code of the response
add_new_steps_status(err) ==
    CASE err = "None" -> 200
      [] err = "NotFound" -> 404
      [] err \in {"KeyError", "ValueError"} -> 400
      [] OTHER -> 500

\* POST /users behind @require_auth
RequestAddUser ==
    \E token \in Tokens \cup {NoToken}, jwks \in {"keys", "error"},
       u \in UserIds :
        Respond("add_user", u, token, jwks, add_user(u),
                add_user_status(add_user(u).err))

\* POST /{user_id} of the steps routes behind @require_auth
RequestAddNewSteps ==
    \E token \in Tokens \cup {NoToken}, jwks \in {"keys", "error"},
       u \in UserIds, d \in Deltas :
        Respond("log_steps", u, token, jwks, add_new_steps(u, d),
                add_new_steps_status(add_new_steps(u, d).err))

\* a request handler thread that runs no add_new_steps call
Idle == [pc |-> "idle", u |-> "", d |-> 0, user |-> DefaultUser,
         groups |-> [g \in {} |-> DefaultGroup]]

Init ==
    /\ deployment \in Deployments
    /\ users = [u \in {} |-> DefaultUser]
    /\ groups = [g \in {} |-> DefaultGroup]
    /\ member_of = {}
    /\ last = [op |-> "init", u |-> "", g |-> "", err |-> "None"]
    /\ calls = [p \in Procs |-> Idle]
    /\ logged = [u \in UserIds |-> 0]
    /\ threads = [t \in Threads |-> "alive"]
    /\ entities = InitEntities
    /\ request = [token |-> NoToken, status |-> 0]
    /\ clock = ClockAt(0)
    /\ scans = [t \in Threads |-> NoScan]
    /\ creates = [p \in Procs |-> NoCreate]
    /\ duplicates = [id \in UserIds \cup GroupIds |-> 0]
    /\ removals = [p \in Procs |-> NoRemoval]

\* the operations on users, groups, membership and steps
Next ==
    \/ AddUser
    \/ AddGroup
    \/ DeleteGroup
    \/ AddMember
    \/ RemoveMember
    \/ LogSteps

Spec == Init /\ [][Next]_vars

\* the application of src/app alone
InitApp == Init /\ deployment = "app"

SpecApp == InitApp /\ [][Next]_vars

\* the same with the full-record updates PUT /users/{id} and PUT /groups/{id}
NextUpdate ==
    \/ AddUser
    \/ AddGroup
    \/ DeleteGroup
    \/ AddMember
    \/ RemoveMember
    \/ LogSteps
    \/ UpdateUser
    \/ UpdateGroup

SpecUpdate == InitApp /\ [][NextUpdate]_vars

\* the three operations of the aggregate scenario, from a consistent store:
\* alice (0 steps) created team-a, bob (0 steps) has no group
InitAgg ==
    /\ deployment \in Deployments
    /\ users = [u \in UserIds |-> DefaultUser]
    /\ groups = [g \in {"team-a"} |-> DefaultGroup]
    /\ member_of = {<<"alice", "team-a">>}
    /\ last = [op |-> "init", u |-> "", g |-> "", err |-> "None"]
    /\ calls = [p \in Procs |-> Idle]
    /\ logged = [u \in UserIds |-> 0]
    /\ threads = [t \in Threads |-> "alive"]
    /\ entities = InitEntities
    /\ request = [token |-> NoToken, status |-> 0]
    /\ clock = ClockAt(0)
    /\ scans = [t \in Threads |-> NoScan]
    /\ creates = [p \in Procs |-> NoCreate]
    /\ duplicates = [id \in UserIds \cup GroupIds |-> 0]
    /\ removals = [p \in Procs |-> NoRemoval]

NextAgg ==
    \/ LogSteps
    \/ AddMember
    \/ RemoveMember

SpecAgg == InitAgg /\ [][NextAgg]_vars

\* log_steps, membership changes and the two reset timers, from the store of
\* InitAgg
NextReset ==
    \/ LogSteps
    \/ AddMember
    \/ RemoveMember
    \/ ResetTodaySteps
    \/ ResetThisWeekSteps

SpecReset == InitAgg /\ [][NextReset]_vars

\* the same with store failures inside the firings of src/app
NextTimers ==
    \/ LogSteps
    \/ ResetTodaySteps
    \/ ResetThisWeekSteps
    \/ ResetTodayStepsStoreFailure
    \/ ResetThisWeekStepsStoreFailure

SpecTimers == InitAgg /\ [][NextTimers]_vars

\* the creation of users in the store and the in-memory Repository
NextUsers ==
    \/ AddUser
    \/ RepoAdd
    \/ RepoUpdate
    \/ RepoDelete

SpecUsers == Init /\ [][NextUsers]_vars

\* two objects built without entities: r1 = Repository() and
\* r2 = Repository({}), the default argument of UserServices.__init__
InitIsolated ==
    /\ deployment \in Deployments
    /\ users = [u \in {} |-> DefaultUser]
    /\ groups = [g \in {} |-> DefaultGroup]
    /\ member_of = {}
    /\ last = [op |-> "init", u |-> "", g |-> "", err |-> "None"]
    /\ calls = [p \in Procs |-> Idle]
    /\ logged = [u \in UserIds |-> 0]
    /\ threads = [t \in Threads |-> "alive"]
    /\ entities = [x \in {"Repository"} \cup RepoIds |->
                     IF x = "Repository"
                     THEN [own |-> TRUE, dict |-> NoEntities]
                     ELSE Repository(NoEntities)]
    /\ request = [token |-> NoToken, status |-> 0]
    /\ clock = ClockAt(0)
    /\ scans = [t \in Threads |-> NoScan]
    /\ creates = [p \in Procs |-> NoCreate]
    /\ duplicates = [id \in UserIds \cup GroupIds |-> 0]
    /\ removals = [p \in Procs |-> NoRemoval]

NextIsolated ==
    \/ RepoAdd
    \/ RepoUpdate
    \/ RepoDelete

SpecIsolated == InitIsolated /\ [][NextIsolated]_vars

\* requests to protected routes, with every kind of Authorization header
NextAuth ==
    \/ RequestAddUser
    \/ RequestAddNewSteps

SpecAuth == Init /\ [][NextAuth]_vars

\* log_steps with and without a failure of the store at the group update
NextUnit ==
    \/ LogSteps
    \/ LogStepsStoreFailure
    \/ AddMember
    \/ RemoveMember

SpecUnit == InitAgg /\ [][NextUnit]_vars

\* the PUT routes on a store with users and groups
NextPut ==
    \/ AddUser
    \/ AddGroup
    \/ PutUser
    \/ PutGroup

SpecPut == Init /\ [][NextPut]_vars

\* the weekly timer of a service started on any day of the week
InitWeek ==
    /\ deployment \in Deployments
    /\ users = [u \in UserIds |-> DefaultUser]
    /\ groups = [g \in {"team-a"} |-> DefaultGroup]
    /\ member_of = {<<"alice", "team-a">>}
    /\ last = [op |-> "init", u |-> "", g |-> "", err |-> "None"]
    /\ calls = [p \in Procs |-> Idle]
    /\ logged = [u \in UserIds |-> 0]
    /\ threads = [t \in Threads |-> "alive"]
    /\ entities = InitEntities
    /\ request = [token |-> NoToken, status |-> 0]
    /\ clock \in {ClockAt(start) : start \in 0..6}
    /\ scans = [t \in Threads |-> NoScan]
    /\ creates = [p \in Procs |-> NoCreate]
    /\ duplicates = [id \in UserIds \cup GroupIds |-> 0]
    /\ removals = [p \in Procs |-> NoRemoval]

NextWeek ==
    \/ Tick
    \/ WeeklyRound

SpecWeek == InitWeek /\ [][NextWeek]_vars

\* GroupServices.add_group of src/app when the store fails the write
\* transaction of add_member_to_group: group_repo.add has already committed
\* and nothing undoes it
add_group_store_failure(u, g) ==
    IF app_add_group(u, g).err # "None" THEN app_add_group(u, g)
    ELSE Out("Internal", users, Put(groups, g, DefaultGroup), member_of)

AddGroupStoreFailure ==
    \E u \in UserIds, g \in GroupIds :
        Apply("add_group", u, g, add_group_store_failure(u, g))

NextFault ==
    \/ Next
    \/ AddGroupStoreFailure

SpecFault == InitApp /\ [][NextFault]_vars

\* ---------------------------------------- add_new_steps of src/app, stepwise
\* Concurrent request handlers run StepsServices.add_new_steps of src/app one
\* store transaction at a time; logged[u] is the sum of the deltas of the
\* calls started for u.

\* user = self.user_repo.get_one(user_id); user.today_steps += steps; ...
StartLog(p, u, d) ==
    /\ calls[p].pc = "idle"
    /\ logged[u] + d <= GroupCap
    /\ IF u \notin DOMAIN users
       THEN /\ last' = [op |-> "log_steps", u |-> u, g |-> "", err |-> "NotFound"]
            /\ UNCHANGED <<calls, logged>>
       ELSE /\ calls' = [calls EXCEPT ![p] =
                           [pc |-> "update_user", u |-> u, d |-> d,
                            user |-> AddSteps(users[u], d, d),
                            groups |-> Idle.groups]]
            /\ logged' = [logged EXCEPT ![u] = @ + d]
            /\ UNCHANGED last
    /\ UNCHANGED <<deployment, users, groups, member_of, threads, entities,
                   request,
                   clock, scans,
                   creates, duplicates, removals>>

\* self.user_repo.update(user): SET u = the record read before, plus steps
WriteUser(p) ==
    /\ calls[p].pc = "update_user"
    /\ users' = Put(users, calls[p].u, calls[p].user)
    /\ calls' = [calls EXCEPT ![p].pc = "get_groups"]
    /\ UNCHANGED <<deployment, groups, member_of, last, logged, threads,
                   entities, request,
                   clock, scans,
                   creates, duplicates, removals>>

\* groups = self.user_repo.get_groups_of_user(user_id)
ReadGroups(p) ==
    /\ calls[p].pc = "get_groups"
    /\ IF get_groups_of_user(calls[p].u) = {}
       THEN /\ calls' = [calls EXCEPT ![p] = Idle]
            /\ last' = [op |-> "log_steps", u |-> calls[p].u, g |-> "",
                        err |-> "None"]
       ELSE /\ calls' = [calls EXCEPT
                           ![p].pc = "update_groups",
                           ![p].groups = [g \in get_groups_of_user(calls[p].u)
                                             |-> groups[g]]]
            /\ UNCHANGED last
    /\ UNCHANGED <<deployment, users, groups, member_of, logged, threads,
                   entities, request,
                   clock, scans,
                   creates, duplicates, removals>>

\* one round of the loop: group.today_steps += steps; group.this_week_steps
\* += steps; self.group_repo.update(group)
WriteGroup(p) ==
    /\ calls[p].pc = "update_groups"
    /\ \E g \in DOMAIN calls[p].groups :
          IF g \notin DOMAIN groups
          THEN /\ calls' = [calls EXCEPT ![p] = Idle]
               /\ last' = [op |-> "log_steps", u |-> calls[p].u, g |-> "",
                           err |-> "NotFound"]
               /\ UNCHANGED groups
          ELSE /\ groups' = Put(groups, g, AddSteps(calls[p].groups[g],
                                                   calls[p].d, calls[p].d))
               /\ IF DOMAIN calls[p].groups = {g}
                  THEN /\ calls' = [calls EXCEPT ![p] = Idle]
                       /\ last' = [op |-> "log_steps", u |-> calls[p].u,
                                   g |-> "", err |-> "None"]
                  ELSE /\ calls' = [calls EXCEPT ![p].groups =
                                      [h \in DOMAIN calls[p].groups \ {g}
                                          |-> calls[p].groups[h]]]
                       /\ UNCHANGED last
    /\ UNCHANGED <<deployment, users, member_of, logged, threads, entities,
                   request,
                   clock, scans,
                   creates, duplicates, removals>>

\* ------------------------------------- the reset loops of src/app, stepwise
\* The timer threads of src/app run their scan one store transaction at a
\* time: get_all, then an update per record read.

\* user.today_steps = 0 in _reset_today_steps, user.this_week_steps = 0 in
\* _reset_this_week_steps, on the record that get_all returned
reset_record(t, rec) ==
    IF t = "_reset_today_steps" THEN [rec EXCEPT !.today_steps = 0]
    ELSE [rec EXCEPT !.this_week_steps = 0]

\* the frame of a step of a reset loop
ScanFrame ==
    UNCHANGED <<deployment, member_of, calls, logged, entities, request, clock,
                creates, duplicates, removals>>

\* the end of a round of thread t: with err "None" the thread is back at
\* pause.until ("done" marks that its firing has completed), with an
\* exception it has ended
EndRound(t, err) ==
    /\ last' = [op |-> t, u |-> "", g |-> "", err |-> err]
    /\ threads' = thread_after(t, err)
    /\ scans' = [scans EXCEPT ![t] = [NoScan EXCEPT !.pc = "done"]]

\* users = self.user_repo.get_all()
ScanUsers(t) ==
    /\ deployment = "app"
    /\ threads[t] = "alive"
    /\ scans[t].pc = "pause"
    /\ scans' = [scans EXCEPT ![t] = [NoScan EXCEPT !.pc = "users",
                                                    !.users = users]]
    /\ UNCHANGED <<users, groups, last, threads>>
    /\ ScanFrame

\* one round of "for user in users": the counter set to 0 on the record read
\* before, self.user_repo.update(user)
WriteScannedUser(t) ==
    /\ scans[t].pc = "users"
    /\ \E u \in DOMAIN scans[t].users :
          IF u \notin DOMAIN users
          THEN EndRound(t, "NotFound") /\ UNCHANGED <<users, groups>>
          ELSE /\ users' = Put(users, u, reset_record(t, scans[t].users[u]))
               /\ scans' = [scans EXCEPT ![t].users = Del(@, u)]
               /\ UNCHANGED <<groups, last, threads>>
    /\ ScanFrame

\* groups = self.group_repo.get_all(), after the last user
ScanGroups(t) ==
    /\ scans[t].pc = "users"
    /\ DOMAIN scans[t].users = {}
    /\ scans' = [scans EXCEPT ![t].pc = "groups", ![t].groups = groups]
    /\ UNCHANGED <<users, groups, last, threads>>
    /\ ScanFrame

\* one round of "for group in groups": self.group_repo.update(group); after
\* the last group the round is over
WriteScannedGroup(t) ==
    /\ scans[t].pc = "groups"
    /\ IF DOMAIN scans[t].groups = {}
       THEN EndRound(t, "None") /\ UNCHANGED <<users, groups>>
       ELSE \E g \in DOMAIN scans[t].groups :
               IF g \notin DOMAIN groups
               THEN EndRound(t, "NotFound") /\ UNCHANGED <<users, groups>>
               ELSE /\ groups' = Put(groups, g,
                                     reset_record(t, scans[t].groups[g]))
                    /\ IF DOMAIN scans[t].groups = {g}
                       THEN EndRound(t, "None")
                       ELSE /\ scans' = [scans EXCEPT ![t].groups = Del(@, g)]
                            /\ UNCHANGED <<last, threads>>
                    /\ UNCHANGED users
    /\ ScanFrame

\* src/app at a midnight that ends a week: alice (1 step) is the member of
\* team-a, bob (1 step) has no group, both timers are about to wake
InitScan ==
    /\ deployment = "app"
    /\ users = [u \in UserIds |-> AddSteps(DefaultUser, 1, 1)]
    /\ groups = [g \in {"team-a"} |-> AddSteps(DefaultGroup, 1, 1)]
    /\ member_of = {<<"alice", "team-a">>}
    /\ last = [op |-> "init", u |-> "", g |-> "", err |-> "None"]
    /\ calls = [p \in Procs |-> Idle]
    /\ logged = [u \in UserIds |-> 0]
    /\ threads = [t \in Threads |-> "alive"]
    /\ entities = InitEntities
    /\ request = [token |-> NoToken, status |-> 0]
    /\ clock = ClockAt(0)
    /\ scans = [t \in Threads |-> NoScan]
    /\ creates = [p \in Procs |-> NoCreate]
    /\ duplicates = [id \in UserIds \cup GroupIds |-> 0]
    /\ removals = [p \in Procs |-> NoRemoval]

\* both timers fire, their loops interleave
NextScan ==
    \/ \E t \in Threads : ScanUsers(t)
    \/ \E t \in Threads : WriteScannedUser(t)
    \/ \E t \in Threads : ScanGroups(t)
    \/ \E t \in Threads : WriteScannedGroup(t)

SpecScan == InitScan /\ [][NextScan]_vars

\* ------------------------------------------- the repository add, stepwise
\* Neo4jUserRepository.add and Neo4jGroupRepository.add run get_one in a read
\* transaction and CREATE in a later write transaction; duplicates[id] counts
\* the nodes with that id beyond the first.

\* the frame of a step of a repository add
CreateFrame ==
    UNCHANGED <<deployment, member_of, last, calls, logged, threads, entities,
                request, clock, scans, removals>>

\* try: self.get_one(id); raise DuplicateError / except NotFoundError
CheckAdd(p, id) ==
    /\ creates[p].pc = "idle"
    /\ creates' = [creates EXCEPT ![p] =
                     IF id \in DOMAIN users \cup DOMAIN groups
                     THEN [pc |-> "idle", id |-> id, err |-> "Duplicate"]
                     ELSE [pc |-> "create", id |-> id, err |-> ""]]
    /\ UNCHANGED <<users, groups, duplicates>>
    /\ CreateFrame

\* session.write_transaction(_add_user, user): CREATE (u:User {...}), or
\* CREATE (g:Group {...}); the statement creates a node whether or not a
\* node with that id exists by now
CreateNode(p) ==
    /\ creates[p].pc = "create"
    /\ LET id == creates[p].id
       IN  /\ IF id \in DOMAIN users \cup DOMAIN groups
              THEN /\ duplicates' = [duplicates EXCEPT ![id] = @ + 1]
                   /\ UNCHANGED <<users, groups>>
              ELSE /\ users' = IF id \in UserIds
                               THEN Put(users, id, DefaultUser) ELSE users
                   /\ groups' = IF id \in GroupIds
                                THEN Put(groups, id, DefaultGroup) ELSE groups
                   /\ UNCHANGED duplicates
           /\ creates' = [creates EXCEPT ![p] =
                            [pc |-> "idle", id |-> id, err |-> "None"]]
    /\ CreateFrame

\* concurrent request handlers that create users and groups
NextCreate ==
    \/ \E p \in Procs, id \in UserIds \cup GroupIds : CheckAdd(p, id)
    \/ \E p \in Procs : CreateNode(p)

SpecCreate == Init /\ [][NextCreate]_vars

\* alice and bob, both without steps, are the members of team-a
InitConc ==
    /\ deployment = "app"
    /\ users = [u \in UserIds |-> DefaultUser]
    /\ groups = [g \in {"team-a"} |-> DefaultGroup]
    /\ member_of = {<<u, "team-a">> : u \in UserIds}
    /\ last = [op |-> "init", u |-> "", g |-> "", err |-> "None"]
    /\ calls = [p \in Procs |-> Idle]
    /\ logged = [u \in UserIds |-> 0]
    /\ threads = [t \in Threads |-> "alive"]
    /\ entities = InitEntities
    /\ request = [token |-> NoToken, status |-> 0]
    /\ clock = ClockAt(0)
    /\ scans = [t \in Threads |-> NoScan]
    /\ creates = [p \in Procs |-> NoCreate]
    /\ duplicates = [id \in UserIds \cup GroupIds |-> 0]
    /\ removals = [p \in Procs |-> NoRemoval]

NextConc ==
    \/ \E p \in Procs, u \in UserIds, d \in Deltas : StartLog(p, u, d)
    \/ \E p \in Procs : WriteUser(p)
    \/ \E p \in Procs : ReadGroups(p)
    \/ \E p \in Procs : WriteGroup(p)

SpecConc == InitConc /\ [][NextConc]_vars

\* --------------------------- remove_member_from_group of src/app, stepwise
\* Concurrent request handlers run GroupServices.remove_member_from_group one
\* store transaction at a time. removals[p].at is the transaction at which
\* the last call of p returned, removals[p].err its outcome.

\* the frame of a step of remove_member_from_group
RemoveFrame ==
    UNCHANGED <<deployment, users, last, calls, logged, threads, entities,
                request, clock, scans, creates, duplicates>>

\* the call of p returns, with an exception unless err is "None"
Returned(p, err) ==
    [removals[p] EXCEPT !.pc = "idle", !.err = err, !.at = removals[p].pc]

\* self.get_one(group_id), the first statement of the Neo4jGroupRepository
\* methods: the call goes on at pc next, or returns NotFound
GetOneThen(p, next) ==
    removals' = [removals EXCEPT ![p] =
                   IF removals[p].g \in DOMAIN groups
                   THEN [removals[p] EXCEPT !.pc = next]
                   ELSE Returned(p, "NotFound")]

\* Neo4jGroupRepository.delete: MATCH (g:Group {id}) DETACH DELETE g
detach_delete_keeps_group(g) ==
    [groups |-> groups, member_of |-> member_of]

detach_delete(g) ==
    [groups |-> Del(groups, g), member_of |-> {m \in member_of : m[2] # g}]

\* group_repo.remove_member_from_group: self.get_one(group_id)
StartRemove(p, u, g) ==
    /\ removals[p].pc = "idle"
    /\ removals' = [removals EXCEPT ![p] =
                      IF g \in DOMAIN groups
                      THEN [NoRemoval EXCEPT !.pc = "remove_relation",
                                             !.u = u, !.g = g]
                      ELSE [NoRemoval EXCEPT !.u = u, !.g = g,
                                             !.err = "NotFound",
                                             !.at = "remove_get_one"]]
    /\ UNCHANGED <<groups, member_of>>
    /\ RemoveFrame

\* group_repo.remove_member_from_group: the write transaction _remove_member
RemoveRelation(p) ==
    /\ removals[p].pc = "remove_relation"
    /\ IF removals[p].u \notin DOMAIN users
       THEN /\ removals' = [removals EXCEPT ![p] = Returned(p, "NotFound")]
            /\ UNCHANGED member_of
       ELSE /\ member_of' = member_of \ {<<removals[p].u, removals[p].g>>}
            /\ removals' = [removals EXCEPT ![p].pc = "members_get_one"]
    /\ UNCHANGED groups
    /\ RemoveFrame

\* group_repo.get_members_of_group: self.get_one(group_id)
MembersGetOne(p) ==
    /\ removals[p].pc = "members_get_one"
    /\ GetOneThen(p, "read_members")
    /\ UNCHANGED <<groups, member_of>>
    /\ RemoveFrame

\* group_repo.get_members_of_group: the read transaction, and the branch
\* "if not ..."
ReadMembers(p) ==
    /\ removals[p].pc = "read_members"
    /\ removals' = [removals EXCEPT ![p].pc =
                      IF get_members_of_group(removals[p].g) = {}
                      THEN "delete_get_one" ELSE "get_user"]
    /\ UNCHANGED <<groups, member_of>>
    /\ RemoveFrame

\* group_repo.delete: self.get_one(group_id)
DeleteGetOne(p) ==
    /\ removals[p].pc = "delete_get_one"
    /\ GetOneThen(p, "delete")
    /\ UNCHANGED <<groups, member_of>>
    /\ RemoveFrame

\* group_repo.delete: the write transaction _delete_group
DetachDelete(p) ==
    /\ removals[p].pc = "delete"
    /\ groups' = detach_delete(removals[p].g).groups
    /\ member_of' = detach_delete(removals[p].g).member_of
    /\ removals' = [removals EXCEPT ![p] = Returned(p, "None")]
    /\ RemoveFrame

\* user = self.user_repo.get_one(user_id)
GetUser(p) ==
    /\ removals[p].pc = "get_user"
    /\ removals' = [removals EXCEPT ![p] =
                      IF removals[p].u \in DOMAIN users
                      THEN [removals[p] EXCEPT !.pc = "get_group",
                                               !.user = users[removals[p].u]]
                      ELSE Returned(p, "NotFound")]
    /\ UNCHANGED <<groups, member_of>>
    /\ RemoveFrame

\* group = self.group_repo.get_one(group_id); group.today_steps -= ...;
\* group.this_week_steps -= ...
GetGroup(p) ==
    /\ removals[p].pc = "get_group"
    /\ removals' = [removals EXCEPT ![p] =
                      IF removals[p].g \in DOMAIN groups
                      THEN [removals[p] EXCEPT
                              !.pc = "update_get_one",
                              !.group = AddSteps(groups[removals[p].g],
                                    0 - removals[p].user.today_steps,
                                    0 - removals[p].user.this_week_steps)]
                      ELSE Returned(p, "NotFound")]
    /\ UNCHANGED <<groups, member_of>>
    /\ RemoveFrame

\* group_repo.update: self.get_one(group_id)
UpdateGetOne(p) ==
    /\ removals[p].pc = "update_get_one"
    /\ GetOneThen(p, "update")
    /\ UNCHANGED <<groups, member_of>>
    /\ RemoveFrame

\* group_repo.update: MATCH (g:Group {id}) SET g = {...}, which writes
\* nothing when the group is gone
WriteRemoval(p) ==
    /\ removals[p].pc = "update"
    /\ groups' = IF removals[p].g \in DOMAIN groups
                 THEN Put(groups, removals[p].g, removals[p].group)
                 ELSE groups
    /\ removals' = [removals EXCEPT ![p] = Returned(p, "None")]
    /\ UNCHANGED member_of
    /\ RemoveFrame

\* concurrent request handlers that remove members
NextRemove ==
    \/ \E p \in Procs, u \in UserIds, g \in GroupIds : StartRemove(p, u, g)
    \/ \E p \in Procs : RemoveRelation(p)
    \/ \E p \in Procs : MembersGetOne(p)
    \/ \E p \in Procs : ReadMembers(p)
    \/ \E p \in Procs : DeleteGetOne(p)
    \/ \E p \in Procs : DetachDelete(p)
    \/ \E p \in Procs : GetUser(p)
    \/ \E p \in Procs : GetGroup(p)
    \/ \E p \in Procs : UpdateGetOne(p)
    \/ \E p \in Procs : WriteRemoval(p)

SpecRemove == InitConc /\ [][NextRemove]_vars

\* one request handler that logs steps while the daily timer fires
NextScanLog ==
    \/ \E u \in UserIds, d \in Deltas : StartLog("p1", u, d)
    \/ WriteUser("p1")
    \/ ReadGroups("p1")
    \/ WriteGroup("p1")
    \/ ScanUsers("_reset_today_steps")
    \/ WriteScannedUser("_reset_today_steps")
    \/ ScanGroups("_reset_today_steps")
    \/ WriteScannedGroup("_reset_today_steps")

SpecScanLog == InitConc /\ [][NextScanLog]_vars

\* ------------------------------------------------------------------ claims
RECURSIVE SumToday(_)
SumToday(S) ==
    IF S = {} THEN 0
    ELSE LET u == CHOOSE x \in S : TRUE
         IN users[u].today_steps + SumToday(S \ {u})

RECURSIVE SumThisWeek(_)
SumThisWeek(S) ==
    IF S = {} THEN 0
    ELSE LET u == CHOOSE x \in S : TRUE
         IN users[u].this_week_steps + SumThisWeek(S \ {u})

\* a step of operation op on (u, g) that ended with err
Did(op, u, g, err) == last' = [op |-> op, u |-> u, g |-> g, err |-> err]

\* C1: every user has a MEMBER_OF relation to at most one group, in every
\* state reached by create_group, add_member and remove_member calls
C1_SingleGroup ==
    \A u \in UserIds : Cardinality(get_groups_of_user(u)) <= 1

\* C2: after any sequence of log_steps, add_member and remove_member calls
\* made one at a time from a consistent store, every group's today_steps is the
\* sum of its members' today_steps
C2_TodayIsSumOfMembers ==
    \A g \in DOMAIN groups :
        groups[g].today_steps = SumToday(get_members_of_group(g))

\* C3: after any successful mutation (create_group, add_member,
\* remove_member, log_steps, update_user, update_group) both counters of every
\* group equal the sum of the counter over its members
C3_AggregatesAreSums ==
    \A g \in DOMAIN groups :
        /\ groups[g].today_steps = SumToday(get_members_of_group(g))
        /\ groups[g].this_week_steps = SumThisWeek(get_members_of_group(g))

RECURSIVE SumLogged(_)
SumLogged(S) ==
    IF S = {} THEN 0
    ELSE LET u == CHOOSE x \in S : TRUE
         IN logged[u] + SumLogged(S \ {u})

\* C4: once all of the concurrent log_steps calls have completed, every
\* user's and every group's today_steps and this_week_steps have grown by the
\* sum of the deltas applied to them (all counters start at 0)
C4_NoLostUpdate ==
    (\A p \in Procs : calls[p].pc = "idle")
    => /\ \A u \in DOMAIN users :
            /\ users[u].today_steps = logged[u]
            /\ users[u].this_week_steps = logged[u]
       /\ \A g \in DOMAIN groups :
            /\ groups[g].today_steps = SumLogged(get_members_of_group(g))
            /\ groups[g].this_week_steps = SumLogged(get_members_of_group(g))

\* C5: add_member(u, g2) for a user who is already a member of some group
\* raises Duplicate for every existing group g2 and changes neither the
\* membership relation nor any group
C5_SecondGroupIsDuplicate ==
    [][\A u \in UserIds, g \in GroupIds, e \in {"None", "NotFound",
                                                "Duplicate", "HTTPException"} :
          (/\ Did("add_member", u, g, e)
           /\ u \in DOMAIN users
           /\ get_groups_of_user(u) # {}
           /\ g \in DOMAIN groups)
          => (e = "Duplicate" /\ member_of' = member_of /\ groups' = groups)
      ]_vars

\* C6: every group in the store has at least one member after every
\* operation, also after a create_group whose membership step failed
C6_NoEmptyGroup ==
    \A g \in DOMAIN groups : get_members_of_group(g) # {}

\* C7: after remove_member(u, g) succeeded for the only member u of g, the
\* group is gone: get(g) raises NotFound
C7_LastMemberLeavesNoGroup ==
    [][\A u \in UserIds, g \in GroupIds :
          (Did("remove_member", u, g, "None")
           /\ get_members_of_group(g) = {u})
          => get_group_err(g)' = "NotFound"
      ]_vars

\* in src/app every group has a member, so the group that the call deleted
\* had last.u as its only member
C7_Witness ==
    /\ deployment = "app"
    /\ last.op = "remove_member"
    /\ last.err = "None"
    /\ last.g \notin DOMAIN groups
    /\ last.u \in DOMAIN users

\* C8: a successful create_group by c leaves the new group with c's current
\* today_steps and this_week_steps and with c as its only member
C8_GroupSeededFromCreator ==
    [][\A u \in UserIds, g \in GroupIds :
          Did("add_group", u, g, "None")
          => /\ g \in DOMAIN groups'
             /\ groups'[g].today_steps = users[u].today_steps
             /\ groups'[g].this_week_steps = users[u].this_week_steps
             /\ get_members_of_group(g)' = {u}
      ]_vars

\* C9: create_group by an existing user raises Duplicate, creating nothing, if
\* the nickname is taken or the creator has a group, and succeeds otherwise
C9_CreateGroupDuplicate ==
    [][\A u \in UserIds, g \in GroupIds, e \in {"None", "NotFound",
                                                "Duplicate", "HTTPException"} :
          (Did("add_group", u, g, e) /\ u \in DOMAIN users)
          => IF g \in DOMAIN groups \/ get_groups_of_user(u) # {}
             THEN e = "Duplicate" /\ groups' = groups /\ member_of' = member_of
             ELSE e = "None" /\ g \in DOMAIN groups' /\ <<u, g>> \in member_of'
      ]_vars

\* C10: get_group_of(u) is NotFound (404) for an absent user, NoContent (204)
\* for a user without group and the user's group otherwise: right after a
\* successful add_member(u, g) it returns g, right after a successful
\* remove_member(u, g) it raises NoContent
C10_GroupOfUserFollowsMembership ==
    /\ \A u \in UserIds :
          /\ u \notin DOMAIN users => get_group_of_user_status(u) = 404
          /\ (u \in DOMAIN users /\ get_groups_of_user(u) = {})
                => get_group_of_user_status(u) = 204
    /\ (last.op = "add_member" /\ last.err = "None")
          => get_group_of_user_returns(last.u) = {last.g}
    /\ (last.op = "remove_member" /\ last.err = "None")
          => get_group_of_user_err(last.u) = "NoContent"

\* C11: a successful log_steps(u, delta) adds delta to both counters of u and
\* to both counters of every group of u (each group counter becomes its own
\* previous value plus delta) and changes no other user, no other group and
\* no membership
C11_LogStepsFrame ==
    [][\A u \in UserIds :
          Did("log_steps", u, "", "None")
          => \E d \in Deltas :
                /\ users' = Put(users, u, AddSteps(users[u], d, d))
                /\ groups' = [g \in DOMAIN groups |->
                                 IF g \in get_groups_of_user(u)
                                 THEN AddSteps(groups[g], d, d)
                                 ELSE groups[g]]
                /\ member_of' = member_of
      ]_vars

\* a step that is a firing of the timer thread t, however it ended
Fired(t) == last'.op = t

\* C12: when a firing of the daily reset has ended, with no other operation
\* running, every user's and every group's today_steps is 0 and every
\* this_week_steps is what it was before the firing
C12_DailyResetZeroesToday ==
    [][Fired("_reset_today_steps")
       => /\ DOMAIN users' = DOMAIN users
          /\ DOMAIN groups' = DOMAIN groups
          /\ \A u \in DOMAIN users :
                /\ users'[u].today_steps = 0
                /\ users'[u].this_week_steps = users[u].this_week_steps
          /\ \A g \in DOMAIN groups :
                /\ groups'[g].today_steps = 0
                /\ groups'[g].this_week_steps = groups[g].this_week_steps
      ]_vars

\* C13: when a firing of the weekly reset has ended, with no other operation
\* running, this_week_steps is 0 for every user and every group of the store
C13_WeeklyResetZeroesWeek ==
    [][Fired("_reset_this_week_steps")
       => /\ \A u \in DOMAIN users' : users'[u].this_week_steps = 0
          /\ \A g \in DOMAIN groups' : groups'[g].this_week_steps = 0
      ]_vars

\* the next firing of the timer thread t
TimerFiring(t) ==
    IF t = "_reset_today_steps" THEN ResetTodaySteps ELSE ResetThisWeekSteps

\* C14: the two timers are independent: a firing of one that ends with an
\* exception of the store ends that timer's thread only, the thread of the
\* other timer stays as it was, and a timer whose thread is alive can fire
C14_TimersAreIndependent ==
    /\ [][\A t \in Threads :
             (threads[t] = "alive" /\ threads'[t] = "dead")
             => \A o \in Threads \ {t} : threads'[o] = threads[o]
         ]_vars
    /\ [](\A t \in Threads : threads[t] = "alive" => ENABLED TimerFiring(t))

\* the weekly reset of src/app has fired and reset after the thread of the
\* daily reset had ended with an exception
C14_Witness ==
    /\ deployment = "app"
    /\ threads["_reset_today_steps"] = "dead"
    /\ last.op = "_reset_this_week_steps"
    /\ last.err = "None"
    /\ \E u \in DOMAIN users : users[u].today_steps > 0

C16_SecondCreateIsDuplicate ==
    [][/\ (last'.op = "add_user" /\ last'.u \in DOMAIN users)
             => /\ last'.err = "Duplicate"
                /\ add_user_status(last'.err) = 409
                /\ users' = users
       /\ (/\ last'.op = "Repository.add"
           /\ get_one_err(last'.g, last'.u) = "None")
             => /\ last'.err = "Duplicate"
                /\ add_user_status(last'.err) = 409
                /\ entities' = entities
      ]_vars

\* the last call was the creation of a user who was in the store
C16_Witness ==
    /\ last.op = "add_user"
    /\ last.err = "Duplicate"
    /\ last.u \in DOMAIN users

\* C17: a request to a protected route whose token is missing, malformed or
\* fails validation against the key set of the issuer (a kid that matches no
\* published key included) is answered 401; its handler is not called and
\* the store is not changed
C17_InvalidTokenIsRejected ==
    [][~TokenIsValid(request'.token)
       => /\ request'.status = 401
          /\ last'.op = "require_auth"
          /\ users' = users
          /\ groups' = groups
          /\ member_of' = member_of
      ]_vars

\* C18: remove_member(u, g) raises NotFound when the group is absent or u has
\* no MEMBER_OF relation to g, and then changes nothing: no group is deleted
\* and no aggregate is decremented
C18_RemoveNonMemberIsNotFound ==
    [][\A u \in UserIds, g \in GroupIds :
          (/\ last'.op = "remove_member"
           /\ last'.u = u
           /\ last'.g = g
           /\ (g \notin DOMAIN groups \/ <<u, g>> \notin member_of))
          => /\ last'.err = "NotFound"
             /\ users' = users
             /\ groups' = groups
             /\ member_of' = member_of
      ]_vars

\* C19: add_member(u, g) raises NotFound, answered 404 and not 409 or 500,
\* when the group or the user is absent, and then changes nothing
C19_AddMemberOfAbsentIsNotFound ==
    [][\A u \in UserIds, g \in GroupIds :
          (/\ last'.op = "add_member"
           /\ last'.u = u
           /\ last'.g = g
           /\ (u \notin DOMAIN users \/ g \notin DOMAIN groups))
          => /\ last'.err = "NotFound"
             /\ add_member_to_group_status(last'.err) = 404
             /\ users' = users
             /\ groups' = groups
             /\ member_of' = member_of
      ]_vars

\* C20: log_steps(u, delta) is one unit of work: in every outcome, a failure
\* of the group update included, either u's counters and the counters of u's
\* group have all grown by delta or none of them has changed; on an absent
\* user it raises NotFound and changes nothing
C20_LogStepsIsOneUnit ==
    [][\A u \in UserIds :
          (last'.op = "log_steps" /\ last'.u = u)
          => IF u \notin DOMAIN users
             THEN /\ last'.err = "NotFound"
                  /\ users' = users
                  /\ groups' = groups
             ELSE LET d == users'[u].today_steps - users[u].today_steps
                  IN /\ users'[u].this_week_steps
                           = users[u].this_week_steps + d
                     /\ \A g \in DOMAIN groups :
                           groups'[g].today_steps = groups[g].today_steps
                              + (IF g \in get_groups_of_user(u) THEN d ELSE 0)
                     /\ (d = 0) => (groups' = groups)
                     /\ (last'.err = "None") => (d > 0)
      ]_vars

\* C21: PUT /users/{id} and PUT /groups/{id} replace the record of the path
\* id and no other, whatever id the body carries, and raise NotFound, changing
\* nothing, when the path id is absent
C21_UpdateByPathId ==
    [][/\ \A id \in UserIds :
             (last'.op = "put_user" /\ last'.u = id)
             => /\ DOMAIN users' = DOMAIN users
                /\ \A o \in DOMAIN users \ {id} : users'[o] = users[o]
                /\ id \notin DOMAIN users
                      => (last'.err = "NotFound" /\ users' = users)
       /\ \A id \in GroupIds :
             (last'.op = "put_group" /\ last'.g = id)
             => /\ DOMAIN groups' = DOMAIN groups
                /\ \A o \in DOMAIN groups \ {id} : groups'[o] = groups[o]
                /\ id \notin DOMAIN groups
                      => (last'.err = "NotFound" /\ groups' = groups)
      ]_vars

\* C22: Repository.update and Repository.delete of an id that is not in the
\* store raise NotFound and change nothing; update of a present id keeps the
\* number of records; after a delete the id is gone, so that deleting it a
\* second time raises NotFound
C22_UpdateDeleteOfAbsentIsNotFound ==
    [][\A r \in RepoIds, id \in UserIds :
          /\ (last'.op = "Repository.update" /\ last'.u = id /\ last'.g = r)
                => IF get_one_err(r, id) = "NotFound"
                   THEN last'.err = "NotFound" /\ entities' = entities
                   ELSE /\ last'.err = "None"
                        /\ Cardinality(get_all(r))' = Cardinality(get_all(r))
                        /\ get_one_err(r, id)' = "None"
          /\ (last'.op = "Repository.delete" /\ last'.u = id /\ last'.g = r)
                => IF get_one_err(r, id) = "NotFound"
                   THEN last'.err = "NotFound" /\ entities' = entities
                   ELSE /\ last'.err = "None"
                        /\ get_one_err(r, id)' = "NotFound"
                        /\ Cardinality(get_all(r))'
                              = Cardinality(get_all(r)) - 1
      ]_vars

\* alice, the entity r2 was built with, has been deleted from r2 and a
\* further delete of alice has just raised NotFound
C22_Witness ==
    /\ last = [op |-> "Repository.delete", u |-> "alice", g |-> "r2",
               err |-> "NotFound"]
    /\ get_one_err("r2", "alice") = "NotFound"

\* C23: each reset timer repeats for ever: whether the scan of a firing
\* completed or a store operation in it failed, the loop of the timer has
\* not ended and the timer fires again at its next boundary
C23_TimerLoopNeverEnds ==
    \A t \in Threads : threads[t] = "alive"

\* C24: on every weekday w the weekly timer sleeps until today's midnight
\* plus 7 - w days: a midnight 1 to 7 days ahead that is always that of
\* weekday 0, so that consecutive weekly firings are exactly 7 days apart
C24_WeeklyBoundary ==
    /\ [](clock.today = clock.start
            => /\ clock.weekly = clock.today + (7 - weekday(clock.today))
               /\ clock.weekly - clock.today \in 1..7
               /\ weekday(clock.weekly) = 0)
    /\ [][clock'.weekly # clock.weekly
            => /\ clock'.weekly - clock'.today \in 1..7
               /\ weekday(clock'.weekly) = 0
               /\ clock'.weekly = clock.weekly + 7
         ]_vars
    /\ [][(clock'.fired # clock.fired /\ clock.fired >= 0)
            => clock'.fired = clock.fired + 7
         ]_vars

\* a service started on a Thursday has fired on the Mondays 7 and 14 and
\* sleeps until day 21
C24_Witness ==
    /\ clock.start = 3
    /\ clock.fired = 14
    /\ clock.weekly = 21

\* C25: when the daily and the weekly reset fire at the same instant and
\* their loops interleave, after both firings have completed today_steps and
\* this_week_steps of every user and every group are 0
C25_BothResetsZeroBoth ==
    (\A t \in Threads : scans[t].pc = "done")
    => /\ \A u \in DOMAIN users :
            users[u].today_steps = 0 /\ users[u].this_week_steps = 0
       /\ \A g \in DOMAIN groups :
            groups[g].today_steps = 0 /\ groups[g].this_week_steps = 0

\* C26: steps logged while the daily reset runs are never lost from the
\* weekly counter: once the call and the firing have completed,
\* this_week_steps of the user and of the user's group include every delta
C26_ResetKeepsWeeklySteps ==
    (/\ scans["_reset_today_steps"].pc = "done"
     /\ \A p \in Procs : calls[p].pc = "idle")
    => /\ \A u \in DOMAIN users : users[u].this_week_steps = logged[u]
       /\ \A g \in DOMAIN groups :
            groups[g].this_week_steps = logged["alice"] + logged["bob"]

\* C27: for any interleaving of two concurrent create calls with the same
\* identifier, at most one record with that identifier exists afterwards and
\* at most one of the calls succeeds
C27_ConcurrentCreateIsUnique ==
    /\ \A id \in UserIds \cup GroupIds : duplicates[id] = 0
    /\ \A p, q \in Procs :
          (/\ p # q
           /\ creates[p].pc = "idle" /\ creates[q].pc = "idle"
           /\ creates[p].id = creates[q].id)
          => ~(creates[p].err = "None" /\ creates[q].err = "None")

\* C28: in every reachable state today_steps and this_week_steps of every
\* user and every group are >= 0
C28_CountersNonNegative ==
    /\ \A u \in DOMAIN users :
          users[u].today_steps >= 0 /\ users[u].this_week_steps >= 0
    /\ \A g \in DOMAIN groups :
          groups[g].today_steps >= 0 /\ groups[g].this_week_steps >= 0

\* C29: concurrent removals never leave an orphan group: once every
\* remove_member call has returned, a group whose members were all removed
\* no longer exists in the store
C29_NoOrphanGroup ==
    (\A p \in Procs : removals[p].pc = "idle")
    => \A g \in DOMAIN groups : get_members_of_group(g) # {}

\* the last two members were removed concurrently: both calls found the group
\* without members, one deleted it and the other found it gone
C29_Witness ==
    /\ \A p \in Procs : removals[p].pc = "idle"
    /\ removals["p1"].u # removals["p2"].u
    /\ removals["p1"].g = "team-a" /\ removals["p2"].g = "team-a"
    /\ removals["p1"].at = "delete" /\ removals["p1"].err = "None"
    /\ removals["p2"].at = "delete_get_one"
    /\ removals["p2"].err = "NotFound"
    /\ "team-a" \notin DOMAIN groups

\* C30: two Repository objects built without entities are isolated: an add,
\* update or delete on one of them leaves what get_all returns on the other
\* unchanged
C30_RepositoriesIsolated ==
    [][\A r \in RepoIds :
          last'.g = r => \A q \in RepoIds \ {r} : get_all(q)' = get_all(q)]_vars

====
